---------------------------- MODULE Spec2Model ----------------------------
(***************************************************************************)
(* PhobosPostgresModel (src/lib/model.js): one model class bound to a pg   *)
(* pool, one instance held by the calling application, and the promise of  *)
(* the most recent call.                                                   *)
(*                                                                         *)
(* The application awaits each promise before its next operation; the     *)
(* callbacks of one call (store.query's, store.connect's, the stream's      *)
(* events) interleave freely.                                               *)
(*                                                                         *)
(* JavaScript values are encoded as integers: a positive integer is a      *)
(* truthy value (a non-zero number, a non-empty string), 0 is the number   *)
(* 0, and the negative integers below are the other falsy values.          *)
(* JavaScript objects (_dirty, _canonical, rows, where clauses) are        *)
(* functions from property names to values.                                *)
(***************************************************************************)
EXTENDS Integers, Sequences, FiniteSets, TLC

\* ------------------------------------------------------------------ bounds
\* ids the serial column of the modelled table can hand out
MaxId == 2
\* connections the pool hands out before connect() has to wait
PoolSize == 2

\* ------------------------------------------------------- JavaScript values
Undefined == -1
Null == -2
EmptyStr == -3
False == -4

Truthy(v) == v > 0

FalsyValues == {0, Null, Undefined, EmptyStr, False}

\* the values the calling application writes into fields: a falsy and a
\* truthy one
SetValues == {0, 1}

EmptyMap == [k \in {} |-> 0]

Has(m, k) == k \in DOMAIN m

\* m[k] of a JavaScript object: undefined when the key is absent
Prop(m, k) == IF k \in DOMAIN m THEN m[k] ELSE Undefined

Put(m, k, v) == [x \in (DOMAIN m) \cup {k} |-> IF x = k THEN v ELSE m[x]]

\* Object.assign({}, a, b)
Assign(a, b) ==
  [x \in (DOMAIN a) \cup (DOMAIN b) |-> IF x \in DOMAIN b THEN b[x] ELSE a[x]]

\* ------------------------------------------------------------ model class
\* Model.attribute('username', ...) of the test suite
attributes == {"username"}

\* Model.init(): id, the declared attributes, created_at, updated_at
fields == {"id"} \cup attributes \cup {"created_at", "updated_at"}

\* default limit of all() and find()
DefaultLimit == 20

\* the value the store's default now() gives created_at / updated_at
Now == 1

\* property names the calling application writes to
Props == {"id", "username", "0"}

\* ------------------------------------------------------------- instances
\* constructor(data = {}): a payload with a truthy id is a stored row
constructor(data) ==
  IF Truthy(Prop(data, "id"))
    THEN [dirty |-> EmptyMap, canonical |-> data]
    ELSE [dirty |-> data, canonical |-> EmptyMap]

\* get(prop): this._dirty[prop] || this._canonical[prop]
get(i, prop) ==
  IF Truthy(Prop(i.dirty, prop)) THEN Prop(i.dirty, prop)
  ELSE Prop(i.canonical, prop)

\* toObject(): Object.assign({}, this._canonical, this._dirty)
toObject(i) == Assign(i.canonical, i.dirty)

\* ------------------------------------------------------------ statements
\* this.table: the pluralized lower-cased class name of class Model
Table == "models"

\* a criteria descriptor with none of its optional members given
Descriptor(type) ==
  [type |-> type, table |-> Table, columns |-> {}, where |-> EmptyMap,
   values |-> EmptyMap, order |-> << >>, limit |-> Undefined, returning |-> {}]

\* runQuery() called with no query: the query argument is undefined
NoStmt == [type |-> "undefined"]

\* queryObject: Query.sql of mongo-sql. Each statement type is rendered
\* from its own template, which holds only that type's clauses: an insert
\* has no where clause, a delete no values, only a select an order and a
\* limit.
queryObject(d) ==
  CASE d.type = "select" ->
         [d EXCEPT !.columns = IF d.columns = {} THEN {"*"} ELSE d.columns,
                   !.values = EmptyMap, !.returning = {}]
    [] d.type = "insert" ->
         [d EXCEPT !.columns = {}, !.where = EmptyMap, !.order = << >>,
                   !.limit = Undefined]
    [] d.type = "update" -> [d EXCEPT !.columns = {}, !.order = << >>, !.limit = Undefined]
    [] d.type = "delete" ->
         [d EXCEPT !.columns = {}, !.values = EmptyMap, !.order = << >>,
                   !.limit = Undefined, !.returning = {}]

\* ------------------------------------------------------ the store (pg pool)
\* A table is a function from the ids of its rows to their username.

Row(t, i) == [id |-> i, username |-> t[i], created_at |-> Now, updated_at |-> Now]

Matches(r, where) == \A k \in DOMAIN where : r[k] = where[k]

Matching(t, where) == {i \in DOMAIN t : Matches(Row(t, i), where)}

RECURSIVE Ascending(_)
Ascending(S) ==
  IF S = {} THEN << >>
  ELSE LET m == CHOOSE x \in S : \A y \in S : x <= y
       IN <<m>> \o Ascending(S \ {m})

Reverse(s) == [i \in 1..Len(s) |-> s[Len(s) + 1 - i]]

Ordered(S, order) ==
  IF order # << >> /\ order[2] = "DESC" THEN Reverse(Ascending(S)) ELSE Ascending(S)

Limited(s, limit) ==
  IF limit = Undefined \/ limit >= Len(s) THEN s ELSE SubSeq(s, 1, limit)

\* the store refuses a statement naming a column the table does not have
ColumnsExist(stmt) ==
  /\ DOMAIN stmt.where \subseteq fields
  /\ DOMAIN stmt.values \subseteq fields

Failed(t, n) == [ok |-> FALSE, rows |-> << >>, rowCount |-> 0, table |-> t, nextId |-> n]

ExecSelect(stmt, t, n) ==
  LET ids == Limited(Ordered(Matching(t, stmt.where), stmt.order), stmt.limit)
      rows == IF stmt.columns = {"count(*)"}
                THEN << [count |-> Cardinality(Matching(t, stmt.where))] >>
                ELSE [k \in 1..Len(ids) |-> Row(t, ids[k])]
  IN [ok |-> TRUE, rows |-> rows, rowCount |-> Len(rows), table |-> t, nextId |-> n]

\* a column the statement gives no value is NULL
Stored(v) == IF v = Undefined THEN Null ELSE v

ExecInsert(stmt, t, n) ==
  LET given == Has(stmt.values, "id")
      id == IF given THEN stmt.values["id"] ELSE n
      n2 == IF given THEN n ELSE n + 1
      t2 == [i \in (DOMAIN t) \cup {id} |->
               IF i = id THEN Stored(Prop(stmt.values, "username")) ELSE t[i]]
  IN IF id \in 1..MaxId /\ id \notin DOMAIN t
       THEN [ok |-> TRUE,
             rows |-> IF stmt.returning = {} THEN << >> ELSE << Row(t2, id) >>,
             rowCount |-> 1, table |-> t2, nextId |-> n2]
       ELSE Failed(t, IF n2 > MaxId + 1 THEN n ELSE n2)

ExecUpdate(stmt, t, n) ==
  LET hit == Matching(t, stmt.where)
      moved == Has(stmt.values, "id")
      newId(i) == IF moved THEN stmt.values["id"] ELSE i
      newName(i) == IF Has(stmt.values, "username") THEN stmt.values["username"] ELSE t[i]
      ids2 == ((DOMAIN t) \ hit) \cup {newId(i) : i \in hit}
      t2 == [j \in ids2 |->
               IF \E i \in hit : newId(i) = j
                 THEN newName(CHOOSE i \in hit : newId(i) = j)
                 ELSE t[j]]
      out == Ascending({newId(i) : i \in hit})
  IN IF moved /\ hit # {} /\
        (Cardinality(hit) > 1 \/ stmt.values["id"] \notin 1..MaxId
           \/ stmt.values["id"] \in (DOMAIN t) \ hit)
       THEN Failed(t, n)
       ELSE [ok |-> TRUE,
             rows |-> IF stmt.returning = {} THEN << >>
                      ELSE [k \in 1..Len(out) |-> Row(t2, out[k])],
             rowCount |-> Cardinality(hit), table |-> t2, nextId |-> n]

\* a delete returns no rows; rowCount is the number of rows it removed
ExecDelete(stmt, t, n) ==
  LET hit == Matching(t, stmt.where)
  IN [ok |-> TRUE, rows |-> << >>, rowCount |-> Cardinality(hit),
      table |-> [i \in (DOMAIN t) \ hit |-> t[i]], nextId |-> n]

\* what the store answers to a statement it runs to completion
Exec(stmt, t, n) ==
  IF ~ColumnsExist(stmt) THEN Failed(t, n)
  ELSE CASE stmt.type = "select" -> ExecSelect(stmt, t, n)
         [] stmt.type = "insert" -> ExecInsert(stmt, t, n)
         [] stmt.type = "update" -> ExecUpdate(stmt, t, n)
         [] stmt.type = "delete" -> ExecDelete(stmt, t, n)

\* ------------------------------------------------------------------ state
VARIABLES
  inst,        \* the instance the application holds: [dirty, canonical]
  table,       \* the stored rows of the model's table
  nextId,      \* the next value of the table's serial id
  call,        \* the application's most recent call
  promise,     \* the promise that call returned
  pending,     \* the statement handed to the pool by that call
  queryCb,     \* store.query's callback is still to be called
  connectCb,   \* store.connect's callback is still to be called
  submitted,   \* what the call has submitted to the pool, in order
  logged,      \* times the call invoked the queryLog hook
  built,       \* times the call invoked queryObject
  stream,      \* the QueryStream opened by the call
  checkedOut,  \* connections checked out of the pool with connect()
  released,    \* times the call invoked release()
  thrown,      \* an exception that left the promise: thrown to the caller, or uncaught in a callback
  queryErr,    \* the error the pool gave the query callback
  connectErr,  \* the error the pool gave the connect callback
  delivered    \* the result the pool gave the query callback

vars == <<inst, table, nextId, call, promise, pending, queryCb, connectCb,
          submitted, logged, built, stream, checkedOut, released, thrown,
          queryErr, connectErr, delivered>>

\* errors the pool reports
Errors == {"E1", "E2"}
NoError == "none"

\* runQuery's options and their defaults
DefaultOpts == [stream |-> FALSE, lean |-> FALSE, first |-> FALSE, last |-> TRUE]
AllOpts == [stream : BOOLEAN, lean : BOOLEAN, first : BOOLEAN, last : BOOLEAN]

\* values a promise settles with
ArrayOf(items) == [kind |-> "array", items |-> items]
InstanceOf(i) == [kind |-> "instance", inst |-> i]
RawRow(r) == [kind |-> "row", row |-> r]
UndefinedValue == [kind |-> "undefined"]
StreamValue == [kind |-> "stream"]
ErrorValue(e) == [kind |-> "error", err |-> e]

NoPromise == [status |-> "none", value |-> UndefinedValue]
Pending == [status |-> "pending", value |-> UndefinedValue]

\* resolve(v) and reject(e): only the first settles the promise
resolve(p, v) == IF p.status = "pending" THEN [status |-> "resolved", value |-> v] ELSE p
reject(p, e) ==
  IF p.status = "pending" THEN [status |-> "rejected", value |-> ErrorValue(e)] ELSE p

NoResult == [rows |-> << >>, rowCount |-> -1]

NoCall == [op |-> "none", self |-> constructor(EmptyMap), arg |-> Undefined,
           where |-> EmptyMap, opts |-> DefaultOpts, baseline |-> 0]

\* Model.init(store) has resolved: the class is bound to its pool and the
\* table exists and is empty; the application holds a new Model().
Init ==
  /\ inst = constructor(EmptyMap)
  /\ table = EmptyMap
  /\ nextId = 1
  /\ call = NoCall
  /\ promise = NoPromise
  /\ pending = NoStmt
  /\ queryCb = FALSE
  /\ connectCb = FALSE
  /\ submitted = << >>
  /\ logged = 0
  /\ built = 0
  /\ stream = "none"
  /\ checkedOut = 0
  /\ released = 0
  /\ thrown = "none"
  /\ queryErr = NoError
  /\ connectErr = NoError
  /\ delivered = NoResult

\* the application acts when nothing of its last call is outstanding
Quiescent == ~queryCb /\ ~connectCb /\ stream # "open"

\* a new operation of the application: what is recorded of the last call is reset
Begin(op, arg, where, o) ==
  /\ Quiescent
  /\ call' = [op |-> op, self |-> inst, arg |-> arg, where |-> where, opts |-> o,
              baseline |-> checkedOut]
  /\ stream' = "none"
  /\ released' = 0
  /\ queryErr' = NoError
  /\ connectErr' = NoError
  /\ delivered' = NoResult
  /\ UNCHANGED <<table, nextId, checkedOut>>

\* the operation made no call to runQuery
NoQuery ==
  /\ promise' = NoPromise
  /\ pending' = NoStmt
  /\ queryCb' = FALSE
  /\ connectCb' = FALSE
  /\ submitted' = << >>
  /\ logged' = 0

\* ---------------------------------------------------- instance operations
new(data) ==
  /\ Begin("none", Undefined, EmptyMap, DefaultOpts)
  /\ inst' = constructor(data)
  /\ NoQuery
  /\ built' = 0
  /\ thrown' = "none"

\* set(prop, value): this._dirty[prop] = value
set(prop, value) ==
  /\ Begin("none", Undefined, EmptyMap, DefaultOpts)
  /\ inst' = [inst EXCEPT !.dirty = Put(inst.dirty, prop, value)]
  /\ NoQuery
  /\ built' = 0
  /\ thrown' = "none"

\* -------------------------------------------------------------- runQuery
\* runQuery(query, params, options) up to the return of the promise: the
\* hook is called, then the executor runs. params stands for whether a
\* parameter array was given.
runQuery(query, params, o) ==
  /\ logged' = 1
  /\ IF query = NoStmt \/ ~params
       THEN /\ promise' = resolve(Pending, ArrayOf(<< >>))
            /\ pending' = NoStmt
            /\ connectCb' = FALSE
            /\ queryCb' = FALSE
            /\ submitted' = << >>
       ELSE /\ promise' = Pending
            /\ pending' = query
            /\ connectCb' = o.stream
            /\ queryCb' = TRUE
            /\ submitted' = << [via |-> "query", stmt |-> query] >>

\* new (this)(row); a row that is undefined takes the default data = {}
Materialize(row) == constructor(IF row = UndefinedValue THEN EmptyMap ELSE row)

\* result.rows[i], counted from 0
RowAt(rows, i) == IF i + 1 \in DOMAIN rows THEN rows[i + 1] ELSE UndefinedValue

Lean(row) == IF row = UndefinedValue THEN UndefinedValue ELSE RawRow(row)

\* the value the query callback resolves the promise with
Disposition(result, o) ==
  IF o.first /\ result.rowCount > 0
    THEN LET firstRow == RowAt(result.rows, 0)
         IN IF o.lean THEN Lean(firstRow) ELSE InstanceOf(Materialize(firstRow))
  ELSE IF o.last /\ result.rowCount > 0
    THEN LET lastRow == RowAt(result.rows, result.rowCount - 1)
         IN IF o.lean THEN Lean(lastRow) ELSE InstanceOf(Materialize(lastRow))
  ELSE IF o.lean THEN ArrayOf(result.rows)
  ELSE ArrayOf([k \in 1..Len(result.rows) |-> Materialize(result.rows[k])])

\* store.query's callback: an error, or the result of the statement
queryCallback ==
  /\ queryCb
  /\ queryCb' = FALSE
  /\ LET r == Exec(pending, table, nextId)
     IN \/ \E e \in Errors :
             /\ queryErr' = e
             /\ promise' = reject(promise, e)
             /\ nextId' = IF r.ok THEN nextId ELSE r.nextId
             /\ UNCHANGED <<table, delivered>>
        \/ /\ r.ok
           /\ table' = r.table
           /\ nextId' = r.nextId
           /\ delivered' = [rows |-> r.rows, rowCount |-> r.rowCount]
           /\ promise' = resolve(promise, Disposition(r, call.opts))
           /\ UNCHANGED queryErr
  /\ UNCHANGED <<inst, call, pending, connectCb, submitted, logged, built, stream,
                 checkedOut, released, thrown, connectErr>>

\* store.connect's callback. With an error there is no client, and
\* client.query throws a TypeError inside the callback.
connectCallback ==
  /\ connectCb
  /\ connectCb' = FALSE
  /\ \/ \E e \in Errors :
          /\ connectErr' = e
          /\ thrown' = "TypeError"
          /\ UNCHANGED <<promise, submitted, stream, checkedOut>>
     \/ /\ checkedOut < PoolSize
        /\ checkedOut' = checkedOut + 1
        /\ submitted' = Append(submitted, [via |-> "stream", stmt |-> pending])
        /\ stream' = "open"
        /\ promise' = resolve(promise, StreamValue)
        /\ UNCHANGED <<connectErr, thrown>>
  /\ UNCHANGED <<inst, table, nextId, call, pending, queryCb, logged, built, released,
                 queryErr, delivered>>

StreamFrame ==
  UNCHANGED <<inst, table, nextId, call, promise, pending, queryCb, connectCb,
              submitted, logged, built, thrown, queryErr, connectErr, delivered>>

\* queryStream.on('end', () => release())
streamEnd ==
  /\ stream = "open"
  /\ stream' = "ended"
  /\ checkedOut' = checkedOut - 1
  /\ released' = released + 1
  /\ StreamFrame

\* the stream emits 'error': no handler is registered for it
streamError ==
  /\ stream = "open"
  /\ stream' = "errored"
  /\ UNCHANGED <<checkedOut, released>>
  /\ StreamFrame

\* the consumer destroys the stream before its end
streamDestroy ==
  /\ stream = "open"
  /\ stream' = "destroyed"
  /\ UNCHANGED <<checkedOut, released>>
  /\ StreamFrame

\* ----------------------------------------------------------- save, delete
\* names that read as a number below 1
NumbersBelowOne == {"0"}

\* the comparison written against 0 instead of 1
KeysLessThanZero(dirty) == Cardinality(DOMAIN dirty) < 0

\* Object.keys(dirty) < 1: the array is turned into a string (its elements
\* joined by commas) and that string into a number
KeysLessThanOne(dirty) ==
  LET keys == DOMAIN dirty
  IN CASE keys = {} -> TRUE
       [] Cardinality(keys) = 1 -> keys \subseteq NumbersBelowOne
       [] OTHER -> FALSE

SaveDescriptor(i) ==
  [Descriptor(IF Truthy(Prop(i.canonical, "id")) THEN "update" ELSE "insert")
     EXCEPT !.values = i.dirty,
            !.returning = fields,
            !.where = [k \in {"id"} |-> Prop(i.canonical, "id")]]

save ==
  /\ Begin("save", Undefined, EmptyMap, DefaultOpts)
  /\ IF KeysLessThanOne(inst.dirty)
       THEN built' = 0 /\ runQuery(NoStmt, FALSE, DefaultOpts)
       ELSE built' = 1 /\ runQuery(queryObject(SaveDescriptor(inst)), TRUE, DefaultOpts)
  /\ thrown' = "none"
  /\ UNCHANGED inst

DeleteDescriptor(i) ==
  [Descriptor("delete") EXCEPT !.where = [k \in {"id"} |-> Prop(i.canonical, "id")]]

delete ==
  /\ Begin("delete", Undefined, EmptyMap, DefaultOpts)
  /\ IF ~Truthy(Prop(inst.canonical, "id"))
       THEN built' = 0 /\ runQuery(NoStmt, FALSE, DefaultOpts)
       ELSE built' = 1 /\ runQuery(queryObject(DeleteDescriptor(inst)), TRUE, DefaultOpts)
  /\ thrown' = "none"
  /\ UNCHANGED inst

\* ------------------------------------------------------- all, find, one, count
\* what the application passes to the static operations
Limits == {1, DefaultLimit}
Orders == {"ASC", "DESC"}
Wheres ==
  {EmptyMap} \cup {[k \in {"username"} |-> v] : v \in SetValues}
             \cup {[k \in {"bogus"} |-> 1]}
Ids == FalsyValues \cup 1..MaxId

AllDescriptor(limit, order) ==
  [Descriptor("select") EXCEPT !.limit = limit, !.order = <<"id", order>>]

all(limit, order) ==
  /\ Begin("all", Undefined, EmptyMap, DefaultOpts)
  /\ built' = 1
  /\ runQuery(queryObject(AllDescriptor(limit, order)), TRUE, DefaultOpts)
  /\ thrown' = "none"
  /\ UNCHANGED inst

FindDescriptor(limit, order, where) ==
  [Descriptor("select") EXCEPT !.limit = limit, !.order = <<"id", order>>,
                               !.where = where]

find(limit, order, where) ==
  /\ Begin("find", Undefined, where, DefaultOpts)
  /\ built' = 1
  /\ runQuery(queryObject(FindDescriptor(limit, order, where)), TRUE, DefaultOpts)
  /\ thrown' = "none"
  /\ UNCHANGED inst

\* the guard written as a test for a missing argument only
RequiresId_MissingOnly(id) == id \in {Undefined, Null}

\* the guard of one(): if (!id) throw
RequiresId(id) == ~Truthy(id)

OneDescriptor(id) ==
  [Descriptor("select") EXCEPT !.limit = 1, !.where = [k \in {"id"} |-> id]]

OneOpts == [DefaultOpts EXCEPT !.first = TRUE]

one(id) ==
  /\ Begin("one", id, EmptyMap, OneOpts)
  /\ IF RequiresId(id)
       THEN /\ thrown' = "Error"
            /\ built' = 0
            /\ NoQuery
       ELSE /\ thrown' = "none"
            /\ built' = 1
            /\ runQuery(queryObject(OneDescriptor(id)), TRUE, OneOpts)
  /\ UNCHANGED inst

CountDescriptor(where) ==
  [Descriptor("select") EXCEPT !.where = where, !.columns = {"count(*)"}]

count(where) ==
  /\ Begin("count", Undefined, where, DefaultOpts)
  /\ built' = 1
  /\ runQuery(queryObject(CountDescriptor(where)), TRUE, DefaultOpts)
  /\ thrown' = "none"
  /\ UNCHANGED inst

\* statements the application hands to runQuery itself
RawQueries == {NoStmt, queryObject(Descriptor("select"))}

\* Model.runQuery(query, params, options) called by the application
runQueryCall(query, params, o) ==
  /\ Begin("runQuery", Undefined, EmptyMap, o)
  /\ built' = 0
  /\ runQuery(query, params, o)
  /\ thrown' = "none"
  /\ UNCHANGED inst

\* instances a settled promise hands to the application
Handed(p) ==
  IF p.status # "resolved" THEN {}
  ELSE IF p.value.kind = "instance" THEN {p.value.inst}
  ELSE IF p.value.kind = "array"
    THEN {p.value.items[k] : k \in
            {j \in 1..Len(p.value.items) : "dirty" \in DOMAIN p.value.items[j]}}
  ELSE {}

\* the application goes on with an instance its last call resolved to
adopt ==
  /\ \E i \in Handed(promise) :
       /\ Begin("none", Undefined, EmptyMap, DefaultOpts)
       /\ inst' = i
  /\ NoQuery
  /\ built' = 0
  /\ thrown' = "none"

\* the life of an instance: built, written to, saved, deleted, fetched again
Next ==
  \/ \E data \in UNION {[D -> SetValues] : D \in SUBSET {"id", "username"}} : new(data)
  \/ \E prop \in Props, value \in SetValues : set(prop, value)
  \/ save
  \/ delete
  \/ \E id \in Ids : one(id)
  \/ adopt
  \/ queryCallback

Spec == Init /\ [][Next]_vars

\* tables that earlier saves have left in the store
Tables == UNION {[S -> SetValues] : S \in SUBSET (1..MaxId)}

QueryInit ==
  /\ inst = constructor(EmptyMap)
  /\ table \in Tables
  /\ nextId = MaxId + 1
  /\ call = NoCall
  /\ promise = NoPromise
  /\ pending = NoStmt
  /\ queryCb = FALSE
  /\ connectCb = FALSE
  /\ submitted = << >>
  /\ logged = 0
  /\ built = 0
  /\ stream = "none"
  /\ checkedOut = 0
  /\ released = 0
  /\ thrown = "none"
  /\ queryErr = NoError
  /\ connectErr = NoError
  /\ delivered = NoResult

\* the static queries of the class, run against a table saved earlier
QueryNext ==
  \/ \E limit \in Limits, order \in Orders : all(limit, order)
  \/ \E limit \in Limits, order \in Orders, where \in Wheres : find(limit, order, where)
  \/ \E where \in Wheres : count(where)
  \/ \E query \in RawQueries, params \in BOOLEAN, o \in AllOpts :
       runQueryCall(query, params, o)
  \/ queryCallback
  \/ connectCallback
  \/ streamEnd
  \/ streamError
  \/ streamDestroy

QuerySpec == QueryInit /\ [][QueryNext]_vars

\* ================================================================ claims

\* the read rule of the data model: dirty if present, else canonical, else
\* undefined
ReadRule(i, prop) ==
  IF Has(i.dirty, prop) THEN i.dirty[prop]
  ELSE IF Has(i.canonical, prop) THEN i.canonical[prop]
  ELSE Undefined

\* C1: after any constructor call and any sequence of set calls, get(field)
\* is the dirty value when field is a key of dirty (falsy values included),
\* else the canonical value when field is a key of canonical, else undefined.
C1_GetFollowsReadRule ==
  \A prop \in Props \cup fields : get(inst, prop) = ReadRule(inst, prop)

\* the call is a save() of an instance that had something in its dirty set
SaveOfChanges == call.op = "save" /\ DOMAIN call.self.dirty # {}

\* C2: once a save() of a non-empty dirty set has resolved on a confirmed
\* write that returned a row, the instance's dirty set is empty and its
\* canonical map is that row; when the write failed the instance is as it was.
C2_SavePromotesDirty ==
  SaveOfChanges =>
    /\ (promise.status = "resolved" /\ delivered # NoResult /\ delivered.rows # << >>
          => /\ inst.dirty = EmptyMap
             /\ inst.canonical = delivered.rows[Len(delivered.rows)])
    /\ (promise.status = "rejected" => inst = call.self)

\* C3: save() of an instance with an empty dirty set submits nothing to the
\* pool, does not call the query builder, returns a promise that is resolved,
\* and leaves canonical and dirty as they were, with or without a canonical id.
C3_EmptySaveIsNoOp ==
  (call.op = "save" /\ DOMAIN call.self.dirty = {}) =>
    /\ submitted = << >>
    /\ pending = NoStmt
    /\ ~queryCb /\ ~connectCb
    /\ built = 0
    /\ promise.status = "resolved"
    /\ thrown = "none"
    /\ inst = call.self

\* a save() with nothing to save, on an instance that has a canonical id
C3_EmptySaveOfStoredRow ==
  /\ call.op = "save"
  /\ call.self.dirty = EmptyMap
  /\ Truthy(Prop(call.self.canonical, "id"))
  /\ promise.status = "resolved"

\* C4: save() of a non-empty dirty set submits exactly one statement: an
\* insert of the dirty columns with no row restriction when the instance has
\* no canonical id, else an update of the dirty columns restricted to the
\* row of the canonical id; the record an insert resolves to carries the set
\* values and a store-assigned id, and the record an update resolves to has
\* the canonical id.
C4_SaveIssuesOneStatement ==
  SaveOfChanges =>
    /\ Len(submitted) = 1
    /\ LET s == submitted[1].stmt
           id == Prop(call.self.canonical, "id")
           saved == toObject(promise.value.inst)
       IN /\ s.values = call.self.dirty
          /\ s.type = IF Truthy(id) THEN "update" ELSE "insert"
          /\ s.where = IF Truthy(id) THEN [k \in {"id"} |-> id] ELSE EmptyMap
          /\ (promise.status = "resolved" /\ promise.value.kind = "instance") =>
               /\ \A k \in DOMAIN call.self.dirty : saved[k] = call.self.dirty[k]
               /\ IF Truthy(id) THEN saved["id"] = id ELSE saved["id"] \in 1..MaxId

\* C5: all() and find(), with the default options, resolve to the sequence
\* of the instances of all the rows the pool returned, one per row and in
\* the pool's order, when there is at least one row.
C5_AllFindResolveToEveryRow ==
  (call.op \in {"all", "find"} /\ promise.status = "resolved"
     /\ delivered.rowCount >= 1) =>
    /\ promise.value.kind = "array"
    /\ Len(promise.value.items) = Len(delivered.rows)
    /\ \A k \in 1..Len(delivered.rows) :
         promise.value.items[k] = constructor(delivered.rows[k])

\* a number, as a promise's value
ScalarValue(n) == [kind |-> "scalar", value |-> n]

\* C6: count(where) resolves to the number of rows matching where, as a
\* scalar and never an instance or a sequence of instances, and its select
\* has no limit and no order.
C6_CountResolvesToScalar ==
  call.op = "count" =>
    /\ \A k \in 1..Len(submitted) :
         /\ submitted[k].stmt.limit = Undefined
         /\ submitted[k].stmt.order = << >>
    /\ promise.status = "resolved" =>
         promise.value = ScalarValue(Cardinality(Matching(table, call.where)))

\* C7: a runQuery call without stream whose result holds zero rows resolves
\* to the empty array, whatever lean, first and last are.
C7_NoRowsResolveToEmptyArray ==
  (call.op # "none" /\ ~call.opts.stream /\ promise.status = "resolved"
     /\ delivered # NoResult /\ delivered.rows = << >>) =>
    promise.value = ArrayOf(<< >>)

\* the select of one(id)
SelectById(id) ==
  [type |-> "select", table |-> Table, columns |-> {"*"},
   where |-> [k \in {"id"} |-> id], values |-> EmptyMap, order |-> << >>,
   limit |-> 1, returning |-> {}]

\* C8: one(id) with a falsy id throws at once: the query hook is not called,
\* nothing is submitted to the pool and no promise is made; with a truthy id
\* it submits exactly one select, restricted to that id, with a limit of 1.
C8_OneRequiresId ==
  call.op = "one" =>
    IF call.arg \in FalsyValues
      THEN /\ thrown = "Error"
           /\ logged = 0
           /\ built = 0
           /\ submitted = << >>
           /\ ~queryCb /\ ~connectCb
           /\ promise = NoPromise
      ELSE /\ thrown = "none"
           /\ logged = 1
           /\ submitted = << [via |-> "query", stmt |-> SelectById(call.arg)] >>

\* one('') has thrown
C8_OneOfEmptyStringThrew ==
  call.op = "one" /\ call.arg = EmptyStr /\ thrown = "Error"

\* C9: a streaming call that checked a connection out has released it
\* exactly once when its stream is over, however the stream ended, and the
\* number of checked-out connections is what it was before the call.
C9_StreamReleasesConnection ==
  stream \in {"ended", "errored", "destroyed"} =>
    /\ released = 1
    /\ checkedOut = call.baseline

\* C10: an error the pool gives the query callback, or the connect callback
\* of a streaming call, rejects the promise with that error: the promise is
\* not resolved, not left pending, and nothing is thrown outside it.
C10_PoolErrorsReject ==
  /\ (queryErr # NoError /\ connectErr = NoError /\ ~call.opts.stream) =>
       promise = [status |-> "rejected", value |-> ErrorValue(queryErr)]
  /\ connectErr # NoError =>
       /\ thrown = "none"
       /\ promise.status # "resolved"
       /\ ~queryCb => /\ promise.status = "rejected"
                      /\ promise.value.err \in {connectErr, queryErr}

\* C11: find({ where }) and count(where) with a where naming a column that
\* is not among the declared fields fail with a validation error before
\* anything is submitted to the pool; a where naming declared columns only
\* is accepted and its select submitted.
C11_UndeclaredColumnsRejected ==
  call.op \in {"find", "count"} =>
    IF DOMAIN call.where \subseteq fields
      THEN thrown = "none" /\ submitted # << >>
      ELSE /\ submitted = << >>
           /\ ~queryCb /\ ~connectCb
           /\ thrown = "Error" \/ promise.status = "rejected"

\* C12: a runQuery call with stream: true and a query to run submits its
\* statement to the pool once, as a streaming cursor and never through the
\* plain query path, and whenever its promise is resolved it is resolved to
\* the stream, however the connect and query callbacks interleave.
C12_StreamCallOnlyStreams ==
  (call.op = "runQuery" /\ call.opts.stream /\ pending # NoStmt) =>
    /\ Len(submitted) <= 1
    /\ \A k \in 1..Len(submitted) : submitted[k].via = "stream"
    /\ promise.status = "resolved" => promise.value = StreamValue

=============================================================================
